---- MODULE Spec2Model ----
(***************************************************************************)
(* Model of python/mlc_llm/model/deepseek/deepseek_model.py:               *)
(*   - DeepseekMoE.forward: gating output -> router (moe_cumsum,           *)
(*     get_indices, get_indptr) -> take -> grouped expert execution ->     *)
(*     scatter_output -> weighting -> moe_sum -> shared experts;           *)
(*   - DeepseekDecoderLayer.__init__ / DeepseekModel.__init__: the choice  *)
(*     of the feed-forward sub-layer per layer index;                      *)
(*   - DeepseekConfig.__post_init__: context window and prefill chunk.     *)
(*                                                                         *)
(* Tensors are indexed from 0, as in the source: a tensor of n rows is a   *)
(* function with domain 0..n-1.  The numeric kernels (linear projections,  *)
(* silu, multiply, add) are external primitives; a hidden row is modelled  *)
(* by its provenance: which token's hidden row it was computed from, which *)
(* expert's gate-up and down weights were applied to it, whether the gated *)
(* nonlinearity was applied, and which gate weight scaled it.  Two rows    *)
(* with equal provenance are equal for every choice of kernel weights.     *)
(***************************************************************************)
EXTENDS Integers, Sequences, FiniteSets, TLC

\* ------------------------------------------------------------------ bounds
MaxExperts == 4     \* n_routed_experts ranges over 1..MaxExperts
MaxTokens == 3      \* num_tokens ranges over 1..MaxTokens
MaxAssign == 6      \* num_tokens * num_experts_per_tok <= MaxAssign
MaxLayers == 4      \* num_hidden_layers ranges over 0..MaxLayers
MaxFreq == 3        \* moe_layer_freq ranges over 0..MaxFreq

\* ------------------------------------------------------- program constants
DefaultPrefillChunk == 2048

VARIABLES
    \* DeepseekMoE
    moe_pc,                 \* position inside __init__ / forward
    num_local_experts,      \* self.num_local_experts
    num_experts_per_tok,    \* self.num_experts_per_tok
    has_shared_experts,     \* whether self.shared_experts was assigned
    num_tokens,             \* b * s
    expert_indices,         \* gating output, [num_tokens][experts_per_tok]
    cumsum, reverse_indices, token_indices, indptr,
    moe_hidden_states,
    final_hidden_states,
    \* DeepseekModel / DeepseekDecoderLayer construction
    layer_pc, layer_config, layers,
    \* DeepseekConfig.__post_init__
    config_pc, given, context_window_size, prefill_chunk_size, kwargs

moe_vars == <<moe_pc, num_local_experts, num_experts_per_tok, has_shared_experts,
              num_tokens, expert_indices, cumsum, reverse_indices, token_indices,
              indptr, moe_hidden_states, final_hidden_states>>
layer_vars == <<layer_pc, layer_config, layers>>
config_vars == <<config_pc, given, context_window_size, prefill_chunk_size, kwargs>>
vars == <<moe_vars, layer_vars, config_vars>>

\* ----------------------------------------------------------------- helpers
Range0(n) == 0 .. (n - 1)
Size(t) == Cardinality(DOMAIN t)
MaxOf(S) == CHOOSE m \in S : \A o \in S : o <= m
MinOf(S) == CHOOSE m \in S : \A o \in S : m <= o
Min(a, b) == IF a <= b THEN a ELSE b

\* ------------------------------------------------------------ hidden rows
\* The hidden row of token t as it enters the block (x after op.reshape).
HiddenRow(t) ==
    [tok |-> t, up |-> -1, act |-> FALSE, down |-> -1, wt |-> -1, dense |-> FALSE]
\* A row no kernel has written (uninitialised output memory).
UnsetRow == HiddenRow(-1)
\* x: [num_tokens, hidden_size]
X(n) == [t \in Range0(n) |-> HiddenRow(t)]
\* expert_weights[t][j]: the gate weight of token t's slot j, named by its
\* position in the gating output.
ExpertWeights(n, k) == [t \in Range0(n) |-> [j \in Range0(k) |-> t * k + j]]

\* --------------------------------------------------- external compute kernels
\* One expert's projection applied to one row (a row of MixtralExperts' output).
ApplyExpert(proj, e, row) ==
    IF row = UnsetRow THEN UnsetRow
    ELSE IF proj = "gate_up" THEN [row EXCEPT !.up = e]
    ELSE [row EXCEPT !.down = e]

\* op.silu(x1) * x3 on the two halves of the fused gate-up projection: elementwise.
SiluMul(x) ==
    [p \in DOMAIN x |-> IF x[p] = UnsetRow THEN UnsetRow ELSE [x[p] EXCEPT !.act = TRUE]]

\* moe_matmul.gemv: indices is the (1, experts_per_tok) gating output; output row j
\* is expert indices[0][j] applied to x[0] (one input row) or to x[j].
gemv(x, indices, proj) ==
    [j \in DOMAIN indices[0] |->
        LET r == IF Size(x) = 1 THEN 0 ELSE j
        IN IF r \in DOMAIN x THEN ApplyExpert(proj, indices[0][j], x[r]) ELSE UnsetRow]

\* moe_matmul.group_gemm: row p is transformed by the expert e whose half-open
\* range [indptr[e], indptr[e+1]) holds p; a row in no range is never written.
group_gemm(x, ptr, proj) ==
    [p \in DOMAIN x |->
        LET Es == {e \in DOMAIN ptr : (e + 1) \in DOMAIN ptr /\ ptr[e] <= p /\ p < ptr[e + 1]}
        IN IF Es = {} THEN UnsetRow ELSE ApplyExpert(proj, MinOf(Es), x[p])]

\* MixtralExperts.forward(x, indptr): a 2-D indptr selects gemv, a 1-D one group_gemm.
MixtralExperts(x, ptr, proj) ==
    IF ptr.ndim = 2 THEN gemv(x, ptr.data, proj) ELSE group_gemm(x, ptr.data, proj)

\* op_ext.moe_misc.moe_cumsum: the one-hot expert mask [num_tokens, num_experts],
\* laid out expert-major, and its inclusive running count:
\* cumsum[e * num_tokens + t] = number of (token, expert) assignments at or before (e, t).
moe_cumsum(indices, num_experts) ==
    LET n == Size(indices)
        mask(t, e) == \E j \in DOMAIN indices[t] : indices[t][j] = e
    IN [i \in Range0(n * num_experts) |->
            Cardinality({i2 \in 0 .. i : mask(i2 % n, i2 \div n)})]

\* The destination slot of the flattened assignment i = t * experts_per_tok + j.
SlotOf(csum, indices, i) ==
    LET n == Size(indices)
        k == Size(indices[0])
        t == i \div k
        e == indices[t][i % k]
        c == e * n + t
    IN IF c \in DOMAIN csum THEN csum[c] - 1 ELSE -1

\* op_ext.moe_misc.get_indices: for every assignment i, with slot p = SlotOf(i),
\* reverse_indices[p] = i and token_indices[p] = token of i.  A slot no assignment
\* writes keeps -1; of several writers the last one stays.
get_indices(csum, indices) ==
    LET n == Size(indices)
        k == Size(indices[0])
        W(p) == {i \in Range0(n * k) : SlotOf(csum, indices, i) = p}
    IN [reverse_indices |->
            [p \in Range0(n * k) |-> IF W(p) = {} THEN -1 ELSE MaxOf(W(p))],
        token_indices |->
            [p \in Range0(n * k) |-> IF W(p) = {} THEN -1 ELSE MaxOf(W(p)) \div k]]

\* op_ext.moe_misc.get_indptr: the per-expert boundaries read off the running count.
get_indptr(csum, num_experts, n, inclusive) ==
    LET last(e) == IF ((e + 1) * n - 1) \in DOMAIN csum THEN csum[(e + 1) * n - 1] ELSE -1
    IN IF inclusive
       THEN [e \in Range0(num_experts) |-> last(e)]
       ELSE [e \in 0 .. num_experts |-> IF e = 0 THEN 0 ELSE last(e - 1)]

\* op.take(x, indices, axis=0): gather rows.
take(x, indices) ==
    [p \in DOMAIN indices |-> IF indices[p] \in DOMAIN x THEN x[indices[p]] ELSE UnsetRow]

\* op_ext.moe_misc.scatter_output: row p of x goes to position indices[p].
scatter_output(x, indices) ==
    [i \in DOMAIN x |->
        LET W == {p \in (DOMAIN x) \cap (DOMAIN indices) : indices[p] = i}
        IN IF W = {} THEN UnsetRow ELSE x[MaxOf(W)]]

\* op_ext.moe_misc.moe_sum(x, dim=1): per token, the sum of its slots' rows, kept as
\* the list of summands in slot order.
moe_sum(x) == [t \in DOMAIN x |-> [sum |-> x[t]]]

\* ------------------------------------------------------------- DeepseekMLP
\* DeepseekMLP.forward: down_proj(silu(x1) * x2) of every row, with its own weights.
DeepseekMLP_forward(x) ==
    [t \in DOMAIN x |-> [x[t] EXCEPT !.dense = TRUE, !.act = TRUE]]

\* ------------------------------------------------------------- DeepseekMoE
\* _expert_forward(x, indptr)
expert_forward(x, ptr) ==
    MixtralExperts(SiluMul(MixtralExperts(x, ptr, "gate_up")), ptr, "down")

\* A variant that hands the flattened gating indices over as a 1-D indptr.
SingleTokenForward_AsIndptr(x, indices) == expert_forward(x, [ndim |-> 1, data |-> indices[0]])

\* forward, num_tokens == 1: _expert_forward(x, expert_indices)
SingleTokenForward(x, indices) == expert_forward(x, [ndim |-> 2, data |-> indices])

\* A variant that passes experts_per_tok as the number of experts.
RouterCumsum_PerTok(indices, num_experts) == moe_cumsum(indices, Size(indices[0]))

\* forward: cumsum = moe_cumsum(expert_indices, num_experts)
RouterCumsum(indices, num_experts) == moe_cumsum(indices, num_experts)

\* forward: reverse_indices, token_indices = get_indices(cumsum, expert_indices)
RouterIndices(csum, indices) == get_indices(csum, indices)

\* A variant that asks for the inclusive boundaries.
RouterIndptr_Inclusive(csum, num_experts, n) == get_indptr(csum, num_experts, n, TRUE)

\* forward: indptr = get_indptr(cumsum, num_experts, num_tokens, inclusive=False)
RouterIndptr(csum, num_experts, n) == get_indptr(csum, num_experts, n, FALSE)

\* A variant that runs the experts on x itself, without the gather.
Dispatch_NoGather(x, tok_idx, ptr) == expert_forward(x, [ndim |-> 1, data |-> ptr])

\* forward: take(x, token_indices, axis=0), then _expert_forward(., indptr)
Dispatch(x, tok_idx, ptr) == expert_forward(take(x, tok_idx), [ndim |-> 1, data |-> ptr])

\* A variant that scatters by token_indices.
ScatterBack_ByToken(hs, rev_idx, tok_idx) == scatter_output(hs, tok_idx)

\* forward: scatter_output(moe_hidden_states, reverse_indices)
ScatterBack(hs, rev_idx, tok_idx) == scatter_output(hs, rev_idx)

\* A variant that reads the flat rows slot-major, as (experts_per_tok, num_tokens).
WeightSlots_SlotMajor(hs, weights, n, k) ==
    [t \in Range0(n) |-> [j \in Range0(k) |->
        LET i == j * n + t
        IN IF i \in DOMAIN hs /\ hs[i] # UnsetRow
           THEN [hs[i] EXCEPT !.wt = weights[t][j]] ELSE UnsetRow]]

\* forward: moe_hidden_states.reshape(num_tokens, experts_per_tok, h)
\*          * expert_weights.reshape(num_tokens, experts_per_tok, 1)
WeightSlots(hs, weights, n, k) ==
    [t \in Range0(n) |-> [j \in Range0(k) |->
        LET i == t * k + j
        IN IF i \in DOMAIN hs /\ hs[i] # UnsetRow
           THEN [hs[i] EXCEPT !.wt = weights[t][j]] ELSE UnsetRow]]

\* forward: moe_hidden_states + shared_expert_hidden_states
AddShared(routed, shared) ==
    [t \in DOMAIN routed |-> [routed |-> routed[t], shared |-> shared[t]]]

\* The whole routed computation of the batched branch, as forward composes it.
BatchedRouted(n, k, num_experts, indices) ==
    LET csum == RouterCumsum(indices, num_experts)
        idx == RouterIndices(csum, indices)
        ptr == RouterIndptr(csum, num_experts, n)
        executed == Dispatch(X(n), idx.token_indices, ptr)
        scattered == ScatterBack(executed, idx.reverse_indices, idx.token_indices)
    IN moe_sum(WeightSlots(scattered, ExpertWeights(n, k), n, k))

\* Valid outputs of gating_softmax_topk: per token, experts_per_tok distinct experts.
TopK(k, num_experts) ==
    {f \in [Range0(k) -> Range0(num_experts)] : \A a, b \in Range0(k) : a # b => f[a] # f[b]}
GatingOutputs(n, k, num_experts) == [Range0(n) -> TopK(k, num_experts)]

NotYet == <<>>

MoEInit ==
    /\ moe_pc = "new"
    /\ num_local_experts = 0
    /\ num_experts_per_tok = 0
    /\ has_shared_experts = FALSE
    /\ num_tokens = 0
    /\ expert_indices = NotYet
    /\ cumsum = NotYet
    /\ reverse_indices = NotYet
    /\ token_indices = NotYet
    /\ indptr = NotYet
    /\ moe_hidden_states = NotYet
    /\ final_hidden_states = NotYet

\* DeepseekMoE.__init__
MoEConstruct ==
    /\ moe_pc = "new"
    /\ \E e \in 1 .. MaxExperts, k \in 1 .. MaxAssign, shared \in BOOLEAN :
        /\ k <= e
        /\ num_local_experts' = e
        /\ num_experts_per_tok' = k
        /\ has_shared_experts' = shared
    /\ moe_pc' = "constructed"
    /\ UNCHANGED <<num_tokens, expert_indices, cumsum, reverse_indices, token_indices,
                   indptr, moe_hidden_states, final_hidden_states>>
    /\ UNCHANGED <<layer_vars, config_vars>>

\* forward: reshape, gate, gating_softmax_topk
Gating ==
    /\ moe_pc = "constructed"
    /\ \E n \in 1 .. MaxTokens :
        /\ n * num_experts_per_tok <= MaxAssign
        /\ num_tokens' = n
        /\ expert_indices' \in GatingOutputs(n, num_experts_per_tok, num_local_experts)
    /\ moe_pc' = "gated"
    /\ UNCHANGED <<num_local_experts, num_experts_per_tok, has_shared_experts, cumsum,
                   reverse_indices, token_indices, indptr, moe_hidden_states,
                   final_hidden_states>>
    /\ UNCHANGED <<layer_vars, config_vars>>

\* forward, num_tokens == 1
SingleToken ==
    /\ moe_pc = "gated"
    /\ num_tokens = 1
    /\ moe_hidden_states' = SingleTokenForward(X(num_tokens), expert_indices)
    /\ moe_pc' = "scattered"
    /\ UNCHANGED <<num_local_experts, num_experts_per_tok, has_shared_experts, num_tokens,
                   expert_indices, cumsum, reverse_indices, token_indices, indptr,
                   final_hidden_states>>
    /\ UNCHANGED <<layer_vars, config_vars>>

\* forward, num_tokens != 1: moe_cumsum, get_indices, get_indptr
Route ==
    /\ moe_pc = "gated"
    /\ num_tokens # 1
    /\ LET csum == RouterCumsum(expert_indices, num_local_experts)
           idx == RouterIndices(csum, expert_indices)
       IN /\ cumsum' = csum
          /\ reverse_indices' = idx.reverse_indices
          /\ token_indices' = idx.token_indices
          /\ indptr' = RouterIndptr(csum, num_local_experts, num_tokens)
    /\ moe_pc' = "routed"
    /\ UNCHANGED <<num_local_experts, num_experts_per_tok, has_shared_experts, num_tokens,
                   expert_indices, moe_hidden_states, final_hidden_states>>
    /\ UNCHANGED <<layer_vars, config_vars>>

\* forward, num_tokens != 1: take, _expert_forward
Execute ==
    /\ moe_pc = "routed"
    /\ moe_hidden_states' = Dispatch(X(num_tokens), token_indices, indptr)
    /\ moe_pc' = "executed"
    /\ UNCHANGED <<num_local_experts, num_experts_per_tok, has_shared_experts, num_tokens,
                   expert_indices, cumsum, reverse_indices, token_indices, indptr,
                   final_hidden_states>>
    /\ UNCHANGED <<layer_vars, config_vars>>

\* forward, num_tokens != 1: scatter_output
Scatter ==
    /\ moe_pc = "executed"
    /\ moe_hidden_states' = ScatterBack(moe_hidden_states, reverse_indices, token_indices)
    /\ moe_pc' = "scattered"
    /\ UNCHANGED <<num_local_experts, num_experts_per_tok, has_shared_experts, num_tokens,
                   expert_indices, cumsum, reverse_indices, token_indices, indptr,
                   final_hidden_states>>
    /\ UNCHANGED <<layer_vars, config_vars>>

\* forward: weighting and moe_sum
Combine ==
    /\ moe_pc = "scattered"
    /\ moe_hidden_states' =
          moe_sum(WeightSlots(moe_hidden_states,
                              ExpertWeights(num_tokens, num_experts_per_tok),
                              num_tokens, num_experts_per_tok))
    /\ moe_pc' = "combined"
    /\ UNCHANGED <<num_local_experts, num_experts_per_tok, has_shared_experts, num_tokens,
                   expert_indices, cumsum, reverse_indices, token_indices, indptr,
                   final_hidden_states>>
    /\ UNCHANGED <<layer_vars, config_vars>>

\* forward: self.shared_experts(x), the addition and the final reshape
SharedExperts ==
    /\ moe_pc = "combined"
    /\ has_shared_experts
    /\ final_hidden_states' = AddShared(moe_hidden_states, DeepseekMLP_forward(X(num_tokens)))
    /\ moe_pc' = "done"
    /\ UNCHANGED <<num_local_experts, num_experts_per_tok, has_shared_experts, num_tokens,
                   expert_indices, cumsum, reverse_indices, token_indices, indptr,
                   moe_hidden_states>>
    /\ UNCHANGED <<layer_vars, config_vars>>

\* forward: self.shared_experts was never assigned by __init__
SharedExpertsMissing ==
    /\ moe_pc = "combined"
    /\ ~has_shared_experts
    /\ moe_pc' = "AttributeError"
    /\ UNCHANGED <<num_local_experts, num_experts_per_tok, has_shared_experts, num_tokens,
                   expert_indices, cumsum, reverse_indices, token_indices, indptr,
                   moe_hidden_states, final_hidden_states>>
    /\ UNCHANGED <<layer_vars, config_vars>>

MoENext ==
    \/ MoEConstruct
    \/ Gating
    \/ SingleToken
    \/ Route
    \/ Execute
    \/ Scatter
    \/ Combine
    \/ SharedExperts
    \/ SharedExpertsMissing

\* --------------------------------------- DeepseekDecoderLayer / DeepseekModel
\* The model configurations the layers are built from; has_routed stands for
\* "config.n_routed_experts is not None".
LayerConfigs ==
    [has_routed : BOOLEAN,
     first_k_dense_replace : 0 .. MaxLayers,
     moe_layer_freq : 0 .. MaxFreq,
     num_hidden_layers : 0 .. MaxLayers]

\* A variant that also keeps layer first_k_dense_replace itself dense.
UsesMoE_StrictlyAfter(config, layer_idx) ==
    /\ config.has_routed
    /\ layer_idx > config.first_k_dense_replace
    /\ layer_idx % config.moe_layer_freq = 0

\* DeepseekDecoderLayer.__init__: the condition that selects DeepseekMoE.  Python
\* evaluates the conjuncts left to right and stops at the first false one.
UsesMoE(config, layer_idx) ==
    /\ config.has_routed
    /\ layer_idx >= config.first_k_dense_replace
    /\ layer_idx % config.moe_layer_freq = 0

\* layer_idx % config.moe_layer_freq is reached with moe_layer_freq == 0.
ModuloByZero(config, layer_idx) ==
    /\ config.has_routed
    /\ layer_idx >= config.first_k_dense_replace
    /\ config.moe_layer_freq = 0

\* self.mlp of DeepseekDecoderLayer(config, layer_idx)
LayerMlp(config, layer_idx) == IF UsesMoE(config, layer_idx) THEN "DeepseekMoE" ELSE "DeepseekMLP"

LayerInit ==
    /\ layer_pc = "new"
    /\ layer_config = [has_routed |-> FALSE, first_k_dense_replace |-> 0,
                       moe_layer_freq |-> 0, num_hidden_layers |-> 0]
    /\ layers = <<>>

\* DeepseekModel.__init__ is entered with a configuration.
ModelInit ==
    /\ layer_pc = "new"
    /\ layer_config' \in LayerConfigs
    /\ layer_pc' = "building"
    /\ UNCHANGED layers
    /\ UNCHANGED <<moe_vars, config_vars>>

\* One iteration of the list comprehension: DeepseekDecoderLayer(config, layer_idx)
\* with layer_idx = Len(layers), the next index of range(num_hidden_layers).
BuildLayer ==
    /\ layer_pc = "building"
    /\ Len(layers) < layer_config.num_hidden_layers
    /\ ~ModuloByZero(layer_config, Len(layers))
    /\ layers' = Append(layers, LayerMlp(layer_config, Len(layers)))
    /\ UNCHANGED <<layer_pc, layer_config>>
    /\ UNCHANGED <<moe_vars, config_vars>>

\* DeepseekDecoderLayer.__init__ raises on the modulo.
BuildLayerFails ==
    /\ layer_pc = "building"
    /\ Len(layers) < layer_config.num_hidden_layers
    /\ ModuloByZero(layer_config, Len(layers))
    /\ layer_pc' = "ZeroDivisionError"
    /\ UNCHANGED <<layer_config, layers>>
    /\ UNCHANGED <<moe_vars, config_vars>>

\* range(num_hidden_layers) is exhausted.
ModelBuilt ==
    /\ layer_pc = "building"
    /\ Len(layers) = layer_config.num_hidden_layers
    /\ layer_pc' = "built"
    /\ UNCHANGED <<layer_config, layers>>
    /\ UNCHANGED <<moe_vars, config_vars>>

LayerNext ==
    \/ ModelInit
    \/ BuildLayer
    \/ BuildLayerFails
    \/ ModelBuilt

\* A variant that tries max_sequence_length first.
FallbackNames_Swapped == <<"max_sequence_length", "max_position_embeddings">>

\* ------------------------------------------------------------ DeepseekConfig
\* for name in ["max_position_embeddings", "max_sequence_length"]
FallbackNames == <<"max_position_embeddings", "max_sequence_length">>

SizeValues ==
    {-1, 0, 1, DefaultPrefillChunk - 1, DefaultPrefillChunk, DefaultPrefillChunk + 1,
     2 * DefaultPrefillChunk}
KwargNames == {"max_position_embeddings", "max_sequence_length", "rope_scaling"}
KwargValues == {0, 1, DefaultPrefillChunk, 2 * DefaultPrefillChunk}
KwargSets == UNION {[names -> KwargValues] : names \in SUBSET KwargNames}
ShardValues == {1, 2}

\* self.kwargs.pop(name)
Pop(kw, name) == [key \in (DOMAIN kw) \ {name} |-> kw[key]]

\* __post_init__, first statement: the for/else over the fallback names.
ResolveContextWindow(cws, kw) ==
    IF cws # 0
    THEN [raised |-> FALSE, context_window_size |-> cws, kwargs |-> kw]
    ELSE LET present == {i \in 1 .. Len(FallbackNames) : FallbackNames[i] \in DOMAIN kw}
         IN IF present = {}
            THEN [raised |-> TRUE, context_window_size |-> cws, kwargs |-> kw]
            ELSE LET name == FallbackNames[MinOf(present)]
                 IN [raised |-> FALSE, context_window_size |-> kw[name],
                     kwargs |-> Pop(kw, name)]

\* A variant that overrides with 2048 without taking the minimum.
ResolvePrefillChunk_NoMin(pcs, cws) ==
    IF pcs = 0 THEN DefaultPrefillChunk
    ELSE IF pcs > cws THEN DefaultPrefillChunk
    ELSE pcs

\* __post_init__, second statement: the if/elif on prefill_chunk_size.
ResolvePrefillChunk(pcs, cws) ==
    IF pcs = 0 THEN Min(cws, DefaultPrefillChunk)
    ELSE IF pcs > cws THEN Min(cws, DefaultPrefillChunk)
    ELSE pcs

ConfigInit ==
    /\ config_pc = "new"
    /\ given = [context_window_size |-> 0, prefill_chunk_size |-> 0,
                tensor_parallel_shards |-> 1, kwargs |-> <<>>]
    /\ context_window_size = 0
    /\ prefill_chunk_size = 0
    /\ kwargs = <<>>

\* The dataclass __init__ stores the fields it is given, then calls __post_init__.
ConfigFields ==
    /\ config_pc = "new"
    /\ \E cws \in SizeValues, pcs \in SizeValues, shards \in ShardValues, kw \in KwargSets :
        /\ given' = [context_window_size |-> cws, prefill_chunk_size |-> pcs,
                     tensor_parallel_shards |-> shards, kwargs |-> kw]
        /\ context_window_size' = cws
        /\ prefill_chunk_size' = pcs
        /\ kwargs' = kw
    /\ config_pc' = "post_init"
    /\ UNCHANGED <<moe_vars, layer_vars>>

\* if self.context_window_size == 0: ... (a fallback found, or nothing to do)
ContextWindow ==
    /\ config_pc = "post_init"
    /\ LET r == ResolveContextWindow(context_window_size, kwargs)
       IN /\ ~r.raised
          /\ context_window_size' = r.context_window_size
          /\ kwargs' = r.kwargs
    /\ config_pc' = "context_resolved"
    /\ UNCHANGED <<given, prefill_chunk_size>>
    /\ UNCHANGED <<moe_vars, layer_vars>>

\* ... else: raise ValueError
ContextWindowMissing ==
    /\ config_pc = "post_init"
    /\ ResolveContextWindow(context_window_size, kwargs).raised
    /\ config_pc' = "ValueError"
    /\ UNCHANGED <<given, context_window_size, prefill_chunk_size, kwargs>>
    /\ UNCHANGED <<moe_vars, layer_vars>>

\* if self.prefill_chunk_size == 0: ... elif ... > self.context_window_size: ...
PrefillChunk ==
    /\ config_pc = "context_resolved"
    /\ prefill_chunk_size' = ResolvePrefillChunk(prefill_chunk_size, context_window_size)
    /\ config_pc' = "prefill_resolved"
    /\ UNCHANGED <<given, context_window_size, kwargs>>
    /\ UNCHANGED <<moe_vars, layer_vars>>

\* assert self.tensor_parallel_shards == 1
ShardsAccepted ==
    /\ config_pc = "prefill_resolved"
    /\ given.tensor_parallel_shards = 1
    /\ config_pc' = "constructed"
    /\ UNCHANGED <<given, context_window_size, prefill_chunk_size, kwargs>>
    /\ UNCHANGED <<moe_vars, layer_vars>>

ShardsRejected ==
    /\ config_pc = "prefill_resolved"
    /\ given.tensor_parallel_shards # 1
    /\ config_pc' = "AssertionError"
    /\ UNCHANGED <<given, context_window_size, prefill_chunk_size, kwargs>>
    /\ UNCHANGED <<moe_vars, layer_vars>>

ConfigNext ==
    \/ ConfigFields
    \/ ContextWindow
    \/ ContextWindowMissing
    \/ PrefillChunk
    \/ ShardsAccepted
    \/ ShardsRejected

\* ------------------------------------------------------------ specifications
\* The three objects share no state; each is run on its own, the others at rest.
Init == MoEInit /\ LayerInit /\ ConfigInit

MoESpec == Init /\ [][MoENext]_vars
LayerSpec == Init /\ [][LayerNext]_vars
ConfigSpec == Init /\ [][ConfigNext]_vars

\* ============================================================== properties
\* What the gating output alone says, without the router.
NumAssign == num_tokens * num_experts_per_tok
TokenOf(i) == i \div num_experts_per_tok
ExpertAt(i) == expert_indices[TokenOf(i)][i % num_experts_per_tok]
Count(e) == Cardinality({i \in Range0(NumAssign) : ExpertAt(i) = e})

\* The feed-forward transform of expert e applied to token t's own hidden row.
ExpertRow(t, e) ==
    [tok |-> t, up |-> e, act |-> TRUE, down |-> e, wt |-> -1, dense |-> FALSE]

\* Naive per-token evaluation: for each token, slot by slot, the gate weight times
\* the selected expert's transform of the token's row, summed over the slots.
NaiveRouted ==
    [t \in Range0(num_tokens) |->
        [sum |-> [j \in Range0(num_experts_per_tok) |->
            [ExpertRow(t, expert_indices[t][j]) EXCEPT !.wt = t * num_experts_per_tok + j]]]]

\* The shared expert's transform of token t's own hidden row.
SharedRow(t) ==
    [tok |-> t, up |-> -1, act |-> TRUE, down |-> -1, wt |-> -1, dense |-> TRUE]

Routed == num_tokens > 1 /\ moe_pc \in {"routed", "executed", "scattered", "combined",
                                        "done", "AttributeError"}
Summed == moe_pc \in {"combined", "done", "AttributeError"}
Permuted == \E p \in DOMAIN reverse_indices : reverse_indices[p] # p

\* C1: in the batched path the assignment-to-slot mapping is a bijection on the
\* num_tokens * experts_per_tok assignments, token_indices names the token of the
\* assignment in each slot, and after take / expert execution / scatter_output every
\* position i holds the result of assignment i itself (its token, its expert).
C1_RoundTrip ==
    Routed =>
        /\ DOMAIN reverse_indices = Range0(NumAssign)
        /\ DOMAIN token_indices = Range0(NumAssign)
        /\ \A i \in Range0(NumAssign) :
              Cardinality({p \in Range0(NumAssign) : reverse_indices[p] = i}) = 1
        /\ \A p \in Range0(NumAssign) : token_indices[p] = TokenOf(reverse_indices[p])
        /\ moe_pc = "scattered" =>
              /\ DOMAIN moe_hidden_states = Range0(NumAssign)
              /\ \A i \in Range0(NumAssign) :
                    moe_hidden_states[i] = ExpertRow(TokenOf(i), ExpertAt(i))
C1_Witness == Routed /\ moe_pc = "scattered" /\ Permuted

\* C2: in the batched path the combined routed output of every token equals the
\* naive per-token evaluation.
C2_MatchesNaive ==
    (num_tokens > 1 /\ Summed) => moe_hidden_states = NaiveRouted
C2_Witness ==
    num_tokens > 1 /\ moe_pc = "combined" /\ num_experts_per_tok > 1 /\ Permuted

\* The end-to-end scenario: 4 experts, k = 2, tokens routed to {0,2}, {1,3}, {0,1}.
Chosen(t) == {expert_indices[t][j] : j \in Range0(num_experts_per_tok)}
Scenario ==
    /\ num_local_experts = 4
    /\ num_experts_per_tok = 2
    /\ num_tokens = 3
    /\ Chosen(0) = {0, 2}
    /\ Chosen(1) = {1, 3}
    /\ Chosen(2) = {0, 1}
ZeroBased(seq) == [i \in Range0(Len(seq)) |-> seq[i + 1]]
IsPrefixSum ==
    /\ DOMAIN indptr = 0 .. num_local_experts
    /\ indptr[0] = 0
    /\ \A e \in Range0(num_local_experts) :
          /\ indptr[e + 1] - indptr[e] = Count(e)
          /\ indptr[e + 1] - indptr[e] >= 0
    /\ indptr[num_local_experts] = NumAssign

\* C3 (as amended): indptr has length num_local_experts + 1 and is the exclusive
\* prefix sum of the per-expert assignment counts, ending at
\* num_tokens * experts_per_tok; in the scenario indptr = [0, 2, 4, 5, 6].
C3_Indptr ==
    Routed =>
        /\ IsPrefixSum
        /\ Scenario => indptr = ZeroBased(<<0, 2, 4, 5, 6>>)
C3_Witness == Routed /\ Scenario
\* C3 (as stated): the same, with indptr = [0, 2, 4, 5, 5] in the scenario.
C3_AsStated ==
    Routed =>
        /\ IsPrefixSum
        /\ Scenario => indptr = ZeroBased(<<0, 2, 4, 5, 5>>)

\* C4: for num_tokens == 1 the router is skipped (cumsum, the indices and indptr are
\* never computed), and the combined output equals the reference that applies the k
\* selected experts to the single token in gating order, weighted and summed, which
\* is also what the batched path computes for that gating output.
C4_SingleToken ==
    (num_tokens = 1 /\ Summed) =>
        /\ cumsum = NotYet /\ reverse_indices = NotYet
        /\ token_indices = NotYet /\ indptr = NotYet
        /\ moe_hidden_states = NaiveRouted
        /\ moe_hidden_states =
              BatchedRouted(1, num_experts_per_tok, num_local_experts, expert_indices)
C4_Witness ==
    /\ num_tokens = 1 /\ moe_pc = "combined" /\ num_experts_per_tok >= 2
    /\ expert_indices[0][0] > expert_indices[0][1]

\* C5: the dispatch order is a stable grouping by expert: two assignments of the same
\* expert e both lie in [indptr[e], indptr[e+1]), the one earlier in the flattened
\* gating output in the lower slot.
C5_Stable ==
    Routed =>
        /\ DOMAIN indptr = 0 .. num_local_experts
        /\ DOMAIN reverse_indices = Range0(NumAssign)
        /\ \A i, i2 \in Range0(NumAssign) :
              (i < i2 /\ ExpertAt(i) = ExpertAt(i2)) =>
                  \E p, p2 \in Range0(NumAssign) :
                      /\ reverse_indices[p] = i
                      /\ reverse_indices[p2] = i2
                      /\ indptr[ExpertAt(i)] <= p
                      /\ p < p2
                      /\ p2 < indptr[ExpertAt(i) + 1]
C5_Witness ==
    /\ Routed /\ Permuted
    /\ \E i, i2 \in Range0(NumAssign) : i + 1 < i2 /\ ExpertAt(i) = ExpertAt(i2)

\* C6: after the grouped execution, row p carries expert e's weights exactly when p
\* lies in [indptr[e], indptr[e+1]); that row is the hidden row of token
\* token_indices[p], which selected e; an expert with no assignment has an empty
\* range and no row carries its weights, all other rows being what they are without it.
C6_Isolation ==
    (num_tokens > 1 /\ moe_pc = "executed") =>
        /\ DOMAIN indptr = 0 .. num_local_experts
        /\ DOMAIN moe_hidden_states = Range0(NumAssign)
        /\ DOMAIN token_indices = Range0(NumAssign)
        /\ \A p \in Range0(NumAssign), e \in Range0(num_local_experts) :
              /\ (indptr[e] <= p /\ p < indptr[e + 1])
                    <=> (moe_hidden_states[p].up = e \/ moe_hidden_states[p].down = e)
              /\ (indptr[e] <= p /\ p < indptr[e + 1]) =>
                    /\ token_indices[p] \in Range0(num_tokens)
                    /\ e \in Chosen(token_indices[p])
                    /\ moe_hidden_states[p] = ExpertRow(token_indices[p], e)
        /\ \A e \in Range0(num_local_experts) :
              Count(e) = 0 => indptr[e] = indptr[e + 1]
C6_Witness ==
    /\ num_tokens > 1 /\ moe_pc = "executed"
    /\ \E e, e2 \in Range0(num_local_experts) : e < e2 /\ Count(e) = 0 /\ Count(e2) > 0

\* C8 (as stated): no forward pass fails for lack of a shared expert, and the block
\* output row of every token is its combined routed output plus the shared expert's
\* transform of the token's own hidden row.
C8_SharedAlways ==
    /\ moe_pc # "AttributeError"
    /\ moe_pc = "done" =>
          final_hidden_states =
              [t \in Range0(num_tokens) |-> [routed |-> NaiveRouted[t], shared |-> SharedRow(t)]]

\* What the layer built for index i (layers[i + 1]) should be, from the configuration.
LayerIdx == Range0(Len(layers))
DenseByPolicy(i) ==
    \/ i < layer_config.first_k_dense_replace
    \/ i % layer_config.moe_layer_freq # 0

\* C7 (as stated): the first first_k_dense_replace layers and every layer with
\* layer_index % moe_layer_freq != 0 use the dense MLP, all other layers the MoE block.
C7_AsStated ==
    layer_config.moe_layer_freq # 0 =>
        \A i \in LayerIdx :
            layers[i + 1] = (IF DenseByPolicy(i) THEN "DeepseekMLP" ELSE "DeepseekMoE")

\* C7 (as amended): when n_routed_experts is not None the layers follow that policy;
\* when it is None every layer uses the dense MLP.
C7_LayerPolicy ==
    layer_config.moe_layer_freq # 0 =>
        \A i \in LayerIdx :
            layers[i + 1] = (IF ~layer_config.has_routed \/ DenseByPolicy(i)
                             THEN "DeepseekMLP" ELSE "DeepseekMoE")
C7_Witness ==
    /\ layer_pc = "built"
    /\ layer_config.has_routed
    /\ layer_config.first_k_dense_replace >= 1
    /\ layer_config.moe_layer_freq >= 2
    /\ \E i, i2 \in LayerIdx :
          /\ layers[i + 1] = "DeepseekMoE"
          /\ i2 >= layer_config.first_k_dense_replace
          /\ layers[i2 + 1] = "DeepseekMLP"

ContextResolved ==
    config_pc \in {"context_resolved", "prefill_resolved", "constructed", "AssertionError"}
Given(name) == name \in DOMAIN given.kwargs
Without(name) == [key \in (DOMAIN given.kwargs) \ {name} |-> given.kwargs[key]]
NoFallback == ~Given("max_position_embeddings") /\ ~Given("max_sequence_length")

\* C9: with context_window_size == 0 the context window is taken from
\* max_position_embeddings when present, otherwise from max_sequence_length, and the
\* field used is removed from kwargs; with neither present construction ends in
\* ValueError before anything else is changed; a non-zero context_window_size and
\* its kwargs are left as given.
C9_ContextWindow ==
    /\ (ContextResolved /\ given.context_window_size = 0 /\ Given("max_position_embeddings")) =>
          /\ context_window_size = given.kwargs["max_position_embeddings"]
          /\ kwargs = Without("max_position_embeddings")
    /\ (ContextResolved /\ given.context_window_size = 0 /\ ~Given("max_position_embeddings")) =>
          /\ Given("max_sequence_length")
          /\ context_window_size = given.kwargs["max_sequence_length"]
          /\ kwargs = Without("max_sequence_length")
    /\ (given.context_window_size = 0 /\ NoFallback) =>
          /\ config_pc \in {"new", "post_init", "ValueError"}
          /\ prefill_chunk_size = given.prefill_chunk_size
          /\ kwargs = given.kwargs
    /\ config_pc = "ValueError" => (given.context_window_size = 0 /\ NoFallback)
    /\ given.context_window_size # 0 =>
          /\ context_window_size = given.context_window_size
          /\ kwargs = given.kwargs
C9_Witness ==
    /\ ContextResolved
    /\ given.context_window_size = 0
    /\ Given("max_position_embeddings") /\ Given("max_sequence_length")
    /\ given.kwargs["max_position_embeddings"] # given.kwargs["max_sequence_length"]

\* C10: once construction has succeeded prefill_chunk_size <= context_window_size; a
\* given prefill_chunk_size of 0, or one above the resolved context_window_size, has
\* become min(context_window_size, 2048), any other is as given.
C10_PrefillChunk ==
    config_pc = "constructed" =>
        /\ prefill_chunk_size <= context_window_size
        /\ prefill_chunk_size =
              (IF given.prefill_chunk_size = 0 \/ given.prefill_chunk_size > context_window_size
               THEN (IF context_window_size < DefaultPrefillChunk
                     THEN context_window_size ELSE DefaultPrefillChunk)
               ELSE given.prefill_chunk_size)
C10_Witness ==
    /\ config_pc = "constructed"
    /\ given.prefill_chunk_size > context_window_size
    /\ context_window_size > 0
    /\ context_window_size < DefaultPrefillChunk

====
